---------------------------- MODULE Spec2Model ----------------------------
(***************************************************************************)
(* A model of the Application Insights span exporter                      *)
(* (opentelemetry-application-insights 0.14.0, src/lib.rs).                *)
(*                                                                         *)
(* The exporter maps every span of a batch to one primary envelope         *)
(* (Request or RemoteDependency) and one envelope per event (Exception or  *)
(* Message), and hands the envelopes to uploader::send, whose result is    *)
(* what export returns.                                                    *)
(*                                                                         *)
(* Conventions:                                                            *)
(*   Option<T>      None is <<>>, Some(x) is <<x>>                         *)
(*   attribute maps functions from a finite set of keys to string values   *)
(*   enum variants  records with a "variant" field                         *)
(* The modules convert, models, tags and uploader are declared in lib.rs   *)
(* (lines 153-157) and defined in files of their own; what is modelled of  *)
(* them follows the specification's description and is marked so where it  *)
(* is defined.  Envelope.time and the id and duration of a record are      *)
(* computed by those modules only and are left out of the records below.   *)
(* The string fields of a record are length-limited                        *)
(* strings (the .into() conversions of lib.rs); the limit is the           *)
(* specification's cap of 1024 characters.                                 *)
(***************************************************************************)
EXTENDS Naturals, Sequences, FiniteSets, TLC

VARIABLES
    exporter,    \* Exporter { instrumentation_key, sample_rate }
    batch,       \* the Vec<SpanData> the SDK hands to export
    pc,          \* position of the export call
    envelopes,   \* the envelopes export collected from the batch
    payload,     \* Some(serialized request body) once serialization succeeded
    sends,       \* number of HttpClient::send invocations of this export
    response,    \* Some(response body) once the transport answered
    sendResult,  \* Some(result of uploader::send)
    returned,    \* Some(ExportResult handed back to the caller of export)
    log,         \* history: the steps of the delivery and how each ended
    builder,     \* PipelineBuilder { config, endpoint, instrumentation_key, sample_rate }
    trail        \* history: the builder calls made, each with the builder it was made on

vars == <<exporter, batch, pc, envelopes, payload, sends, response, sendResult,
          returned, log, builder, trail>>

---------------------------------------------------------------------------
(* Bounds of the model.                                                    *)

\* events per span (mapping specification)
MaxEvents == 2
\* spans per batch (upload specification)
MaxBatch == 2

---------------------------------------------------------------------------
(* Option<T>                                                               *)

None == <<>>

Some(x) == <<x>>

IsSome(o) == o # <<>>

Unwrap(o) == o[1]

---------------------------------------------------------------------------
(* Attribute keys (opentelemetry_semantic_conventions, as listed in the    *)
(* crate documentation's attribute table).                                 *)

HTTP_METHOD == "http.method"

HTTP_ROUTE == "http.route"

HTTP_STATUS_CODE == "http.status_code"

HTTP_URL == "http.url"

HTTP_TARGET == "http.target"

HTTP_SCHEME == "http.scheme"

HTTP_HOST == "http.host"

HTTP_CLIENT_IP == "http.client_ip"

NET_PEER_IP == "net.peer.ip"

NET_PEER_NAME == "net.peer.name"

NET_PEER_PORT == "net.peer.port"

DB_STATEMENT == "db.statement"

DB_NAME == "db.name"

DB_SYSTEM == "db.system"

MESSAGING_SYSTEM == "messaging.system"

RPC_SYSTEM == "rpc.system"

EXCEPTION_TYPE == "exception.type"

EXCEPTION_MESSAGE == "exception.message"

EXCEPTION_STACKTRACE == "exception.stacktrace"

SERVICE_NAME == "service.name"

\* attributes.get(&key)
Get(attrs, key) == IF key \in DOMAIN attrs THEN Some(attrs[key]) ELSE None

\* str::starts_with
StartsWith(s, prefix) ==
    Len(s) >= Len(prefix) /\ SubSeq(s, 1, Len(prefix)) = prefix

---------------------------------------------------------------------------
(* Span data                                                               *)

SpanKinds == {"Server", "Consumer", "Client", "Producer", "Internal"}

StatusCodes == {"Unset", "Ok", "Error"}

\* (span.status_code as i32).to_string()
StatusCodeToString(status_code) ==
    CASE status_code = "Unset" -> "0"
      [] status_code = "Ok"    -> "1"
      [] status_code = "Error" -> "2"

\* the length cap of models::LimitedLenString1024
MaxLen1024 == 1024

\* a string longer than the cap is cut to the cap, never dropped
LimitedLenString1024(s) ==
    IF Len(s) > MaxLen1024 THEN SubSeq(s, 1, MaxLen1024) ELSE s

\* a properties mapping of the entries of an attribute map: keys and values
\* capped
Properties(map) ==
    [key \in {LimitedLenString1024(k) : k \in DOMAIN map} |->
        LimitedLenString1024(
            map[CHOOSE k \in DOMAIN map : LimitedLenString1024(k) = key])]

\* convert::attrs_to_properties: the attributes over the resource's
\* attributes (an attribute wins over a resource entry of the same key),
\* keys and values capped, None instead of an empty mapping.
attrs_to_properties(attributes, resource) ==
    LET keys == DOMAIN attributes \cup DOMAIN resource
        merged == [k \in keys |-> IF k \in DOMAIN attributes
                                  THEN attributes[k]
                                  ELSE resource[k]]
    IN  IF keys = {} THEN None ELSE Some(Properties(merged))

---------------------------------------------------------------------------
(* impl From<&SpanData> for RequestData                                    *)

\* a mapping where a route overrides the name without a method
RequestName_RouteAlone(span) ==
    LET method == Get(span.attributes, HTTP_METHOD)
        route == Get(span.attributes, HTTP_ROUTE)
        name == LimitedLenString1024(span.name)
    IN  IF IsSome(method)
        THEN IF IsSome(route)
             THEN Some(LimitedLenString1024(Unwrap(method) \o " " \o Unwrap(route)))
             ELSE Some(LimitedLenString1024(Unwrap(method)))
        ELSE IF IsSome(route) THEN Some(LimitedLenString1024(Unwrap(route)))
        ELSE IF name # "" THEN Some(name) ELSE None

RequestName(span) ==
    LET method == Get(span.attributes, HTTP_METHOD)
        route == Get(span.attributes, HTTP_ROUTE)
        name == LimitedLenString1024(span.name)
    IN  IF IsSome(method)
        THEN IF IsSome(route)
             THEN Some(LimitedLenString1024(Unwrap(method) \o " " \o Unwrap(route)))
             ELSE Some(LimitedLenString1024(Unwrap(method)))
        ELSE IF name # "" THEN Some(name) ELSE None

RequestResponseCode(span) ==
    LET status_code == Get(span.attributes, HTTP_STATUS_CODE)
    IN  IF IsSome(status_code)
        THEN LimitedLenString1024(Unwrap(status_code))
        ELSE LimitedLenString1024(StatusCodeToString(span.status_code))

RequestSuccess(span) == span.status_code # "Error"

\* a mapping that uses http.target as it is
RequestUrl_TargetAsIs(span) ==
    LET url == Get(span.attributes, HTTP_URL)
        http_target == Get(span.attributes, HTTP_TARGET)
        scheme == Get(span.attributes, HTTP_SCHEME)
        host == Get(span.attributes, HTTP_HOST)
        target == Unwrap(http_target)
    IN  IF IsSome(url)
        THEN Some(LimitedLenString1024(Unwrap(url)))
        ELSE IF IsSome(http_target)
             THEN IF IsSome(scheme) /\ IsSome(host)
                  THEN Some(LimitedLenString1024(
                                Unwrap(scheme) \o "://" \o Unwrap(host) \o target))
                  ELSE Some(LimitedLenString1024(target))
             ELSE None

RequestUrl(span) ==
    LET url == Get(span.attributes, HTTP_URL)
        http_target == Get(span.attributes, HTTP_TARGET)
        scheme == Get(span.attributes, HTTP_SCHEME)
        host == Get(span.attributes, HTTP_HOST)
        target == IF StartsWith(Unwrap(http_target), "/")
                  THEN Unwrap(http_target)
                  ELSE "/" \o Unwrap(http_target)
    IN  IF IsSome(url)
        THEN Some(LimitedLenString1024(Unwrap(url)))
        ELSE IF IsSome(http_target)
             THEN IF IsSome(scheme) /\ IsSome(host)
                  THEN Some(LimitedLenString1024(
                                Unwrap(scheme) \o "://" \o Unwrap(host) \o target))
                  ELSE Some(LimitedLenString1024(target))
             ELSE None

RequestSource(span) ==
    LET client_ip == Get(span.attributes, HTTP_CLIENT_IP)
        peer_ip == Get(span.attributes, NET_PEER_IP)
    IN  IF IsSome(client_ip) THEN Some(LimitedLenString1024(Unwrap(client_ip)))
        ELSE IF IsSome(peer_ip) THEN Some(LimitedLenString1024(Unwrap(peer_ip)))
        ELSE None

RequestData(span) ==
    [ ver           |-> 2,
      name          |-> RequestName(span),
      response_code |-> RequestResponseCode(span),
      success       |-> RequestSuccess(span),
      source        |-> RequestSource(span),
      url           |-> RequestUrl(span),
      properties    |-> attrs_to_properties(span.attributes, span.resource) ]

---------------------------------------------------------------------------
(* impl From<&SpanData> for RemoteDependencyData                           *)

DependencyResultCode(span) ==
    LET status_code == Get(span.attributes, HTTP_STATUS_CODE)
    IN  IF IsSome(status_code)
        THEN Some(LimitedLenString1024(Unwrap(status_code)))
        ELSE Some(LimitedLenString1024(StatusCodeToString(span.status_code)))

\* the success of a Request, used for a dependency
DependencySuccess_TwoValued(span) == Some(span.status_code # "Error")

DependencySuccess(span) ==
    CASE span.status_code = "Unset" -> None
      [] span.status_code = "Ok"    -> Some(TRUE)
      [] span.status_code = "Error" -> Some(FALSE)

DependencyData(span) ==
    LET url == Get(span.attributes, HTTP_URL)
        statement == Get(span.attributes, DB_STATEMENT)
    IN  IF IsSome(url) THEN Some(LimitedLenString1024(Unwrap(url)))
        ELSE IF IsSome(statement) THEN Some(LimitedLenString1024(Unwrap(statement)))
        ELSE None

\* a mapping that prefers the peer's address to its name
DependencyTarget_IpBeforeName(span) ==
    LET host == Get(span.attributes, HTTP_HOST)
        peer_name == Get(span.attributes, NET_PEER_NAME)
        peer_ip == Get(span.attributes, NET_PEER_IP)
        peer_port == Get(span.attributes, NET_PEER_PORT)
        db_name == Get(span.attributes, DB_NAME)
    IN  IF IsSome(host) THEN Some(LimitedLenString1024(Unwrap(host)))
        ELSE IF IsSome(peer_ip)
             THEN IF IsSome(peer_port)
                  THEN Some(LimitedLenString1024(
                                Unwrap(peer_ip) \o ":" \o Unwrap(peer_port)))
                  ELSE Some(LimitedLenString1024(Unwrap(peer_ip)))
        ELSE IF IsSome(peer_name)
             THEN IF IsSome(peer_port)
                  THEN Some(LimitedLenString1024(
                                Unwrap(peer_name) \o ":" \o Unwrap(peer_port)))
                  ELSE Some(LimitedLenString1024(Unwrap(peer_name)))
        ELSE IF IsSome(db_name) THEN Some(LimitedLenString1024(Unwrap(db_name)))
        ELSE None

DependencyTarget(span) ==
    LET host == Get(span.attributes, HTTP_HOST)
        peer_name == Get(span.attributes, NET_PEER_NAME)
        peer_ip == Get(span.attributes, NET_PEER_IP)
        peer_port == Get(span.attributes, NET_PEER_PORT)
        db_name == Get(span.attributes, DB_NAME)
    IN  IF IsSome(host) THEN Some(LimitedLenString1024(Unwrap(host)))
        ELSE IF IsSome(peer_name)
             THEN IF IsSome(peer_port)
                  THEN Some(LimitedLenString1024(
                                Unwrap(peer_name) \o ":" \o Unwrap(peer_port)))
                  ELSE Some(LimitedLenString1024(Unwrap(peer_name)))
        ELSE IF IsSome(peer_ip)
             THEN IF IsSome(peer_port)
                  THEN Some(LimitedLenString1024(
                                Unwrap(peer_ip) \o ":" \o Unwrap(peer_port)))
                  ELSE Some(LimitedLenString1024(Unwrap(peer_ip)))
        ELSE IF IsSome(db_name) THEN Some(LimitedLenString1024(Unwrap(db_name)))
        ELSE None

\* a mapping that looks at the system attributes before the span kind
DependencyType_AttributesFirst(span, properties) ==
    LET db_system == Get(span.attributes, DB_SYSTEM)
        messaging_system == Get(span.attributes, MESSAGING_SYSTEM)
        rpc_system == Get(span.attributes, RPC_SYSTEM)
    IN  IF IsSome(db_system) THEN Some(LimitedLenString1024(Unwrap(db_system)))
        ELSE IF IsSome(messaging_system)
             THEN Some(LimitedLenString1024(Unwrap(messaging_system)))
        ELSE IF IsSome(rpc_system) THEN Some(LimitedLenString1024(Unwrap(rpc_system)))
        ELSE IF span.span_kind = "Internal" THEN Some("InProc")
        ELSE IF IsSome(properties)
             THEN IF \E x \in DOMAIN Unwrap(properties) : StartsWith(x, "http.")
                  THEN Some("HTTP")
                  ELSE IF \E x \in DOMAIN Unwrap(properties) : StartsWith(x, "db.")
                       THEN Some("DB")
                       ELSE None
        ELSE None

DependencyType(span, properties) ==
    LET db_system == Get(span.attributes, DB_SYSTEM)
        messaging_system == Get(span.attributes, MESSAGING_SYSTEM)
        rpc_system == Get(span.attributes, RPC_SYSTEM)
    IN  IF span.span_kind = "Internal" THEN Some("InProc")
        ELSE IF IsSome(db_system) THEN Some(LimitedLenString1024(Unwrap(db_system)))
        ELSE IF IsSome(messaging_system)
             THEN Some(LimitedLenString1024(Unwrap(messaging_system)))
        ELSE IF IsSome(rpc_system) THEN Some(LimitedLenString1024(Unwrap(rpc_system)))
        ELSE IF IsSome(properties)
             THEN IF \E x \in DOMAIN Unwrap(properties) : StartsWith(x, "http.")
                  THEN Some("HTTP")
                  ELSE IF \E x \in DOMAIN Unwrap(properties) : StartsWith(x, "db.")
                       THEN Some("DB")
                       ELSE None
        ELSE None

RemoteDependencyData(span) ==
    LET properties == attrs_to_properties(span.attributes, span.resource)
    IN  [ ver         |-> 2,
          name        |-> LimitedLenString1024(span.name),
          result_code |-> DependencyResultCode(span),
          success     |-> DependencySuccess(span),
          data        |-> DependencyData(span),
          target      |-> DependencyTarget(span),
          type_       |-> DependencyType(span, properties),
          properties  |-> properties ]

---------------------------------------------------------------------------
(* impl From<&Event> for ExceptionData, impl From<&Event> for MessageData  *)

\* Some(attrs.iter().map(..).collect()).filter(|x: &Properties| !x.is_empty())
NonEmptyProperties(map) == IF DOMAIN map = {} THEN None ELSE Some(Properties(map))

\* a mapping that reads the three attributes without removing them
ExceptionData_KeepKeys(event) ==
    LET type_name == Get(event.attributes, EXCEPTION_TYPE)
        message == Get(event.attributes, EXCEPTION_MESSAGE)
        stack == Get(event.attributes, EXCEPTION_STACKTRACE)
    IN  [ ver        |-> 2,
          exceptions |-> << [ type_name |-> IF IsSome(type_name)
                                            THEN LimitedLenString1024(Unwrap(type_name))
                                            ELSE "<no type>",
                              message   |-> IF IsSome(message)
                                            THEN LimitedLenString1024(Unwrap(message))
                                            ELSE "<no message>",
                              stack     |-> IF IsSome(stack)
                                            THEN Some(LimitedLenString1024(Unwrap(stack)))
                                            ELSE None ] >>,
          properties |-> NonEmptyProperties(event.attributes) ]

ExceptionData(event) ==
    LET type_name == Get(event.attributes, EXCEPTION_TYPE)
        message == Get(event.attributes, EXCEPTION_MESSAGE)
        stack == Get(event.attributes, EXCEPTION_STACKTRACE)
        rest == DOMAIN event.attributes
                  \ {EXCEPTION_TYPE, EXCEPTION_MESSAGE, EXCEPTION_STACKTRACE}
    IN  [ ver        |-> 2,
          exceptions |-> << [ type_name |-> IF IsSome(type_name)
                                            THEN LimitedLenString1024(Unwrap(type_name))
                                            ELSE "<no type>",
                              message   |-> IF IsSome(message)
                                            THEN LimitedLenString1024(Unwrap(message))
                                            ELSE "<no message>",
                              stack     |-> IF IsSome(stack)
                                            THEN Some(LimitedLenString1024(Unwrap(stack)))
                                            ELSE None ] >>,
          properties |-> NonEmptyProperties([k \in rest |-> event.attributes[k]]) ]

MessageData(event) ==
    [ ver        |-> 2,
      message    |-> IF event.name = ""
                     THEN "<no message>"
                     ELSE LimitedLenString1024(event.name),
      properties |-> NonEmptyProperties(event.attributes) ]

---------------------------------------------------------------------------
(* PipelineBuilder                                                         *)

\* builder calls per pipeline
MaxCalls == 3

\* new_pipeline
new_pipeline(instrumentation_key) ==
    [ config              |-> None,
      endpoint            |-> None,
      instrumentation_key |-> instrumentation_key,
      sample_rate         |-> None ]

\* sdk::trace::Config::default(): no resource; of the other parameters of a
\* config the model keeps the sampler
Config_default == [resource |-> None, sampler |-> "ParentBased(AlwaysOn)"]

\* r.merge(&other): the entries of both, those of other over those of r
\* (with_service_name merges the new service.name in to override a
\* previous setting of it)
Resource_merge(r, other) ==
    [k \in DOMAIN r \cup DOMAIN other |-> IF k \in DOMAIN other THEN other[k] ELSE r[k]]

\* config.with_resource(resource)
with_resource(config, resource) == [config EXCEPT !.resource = Some(resource)]

\* PipelineBuilder::with_trace_config
with_trace_config(self, config) ==
    LET resource == Unwrap(config.resource)
        merged_resource ==
            IF IsSome(self.config)
            THEN IF IsSome(Unwrap(self.config).resource)
                 THEN Resource_merge(Unwrap(Unwrap(self.config).resource), resource)
                 ELSE resource
            ELSE resource
    IN  [self EXCEPT !.config = IF IsSome(config.resource)
                                THEN Some(with_resource(config, merged_resource))
                                ELSE Some(config)]

\* PipelineBuilder::with_service_name
with_service_name(self, name) ==
    LET config == IF IsSome(self.config) THEN Unwrap(self.config) ELSE Config_default
        new_resource == [k \in {SERVICE_NAME} |-> name]
        merged_resource == IF IsSome(config.resource)
                           THEN Resource_merge(Unwrap(config.resource), new_resource)
                           ELSE new_resource
    IN  [self EXCEPT !.config = Some(with_resource(config, merged_resource))]

---------------------------------------------------------------------------
(* Exporter                                                                *)

\* the default sample rate of Exporter::new, a percentage
DefaultSampleRate == 100

\* Exporter::new
Exporter_new(instrumentation_key) ==
    [ instrumentation_key |-> instrumentation_key,
      sample_rate         |-> DefaultSampleRate ]

\* tags::get_tags_for_span.  The file is not among the sources; the tags
\* are those of the specification's tag resolver and of the attribute table
\* of the crate documentation, resolved from the span's attributes over its
\* resource's: the keys under "ai." as they are, the application version,
\* the authenticated user, the cloud role (namespace and name), the cloud
\* role instance, the SDK version, and for a Server span with http.method
\* the operation name.
get_tags_for_span(span) ==
    LET keys == DOMAIN span.attributes \cup DOMAIN span.resource
        merged == [k \in keys |-> IF k \in DOMAIN span.attributes
                                  THEN span.attributes[k]
                                  ELSE span.resource[k]]
        passed == {k \in keys : StartsWith(k, "ai.")}
        method == Get(span.attributes, HTTP_METHOD)
        route == Get(span.attributes, HTTP_ROUTE)
        derived ==
            (IF "service.version" \in keys
             THEN {<<"ai.application.ver", merged["service.version"]>>} ELSE {})
            \cup
            (IF "enduser.id" \in keys
             THEN {<<"ai.user.authUserId", merged["enduser.id"]>>} ELSE {})
            \cup
            (IF SERVICE_NAME \in keys
             THEN {<<"ai.cloud.role",
                     IF "service.namespace" \in keys
                     THEN merged["service.namespace"] \o "." \o merged[SERVICE_NAME]
                     ELSE merged[SERVICE_NAME]>>}
             ELSE {})
            \cup
            (IF "service.instance.id" \in keys
             THEN {<<"ai.cloud.roleInstance", merged["service.instance.id"]>>} ELSE {})
            \cup
            (IF {"telemetry.sdk.name", "telemetry.sdk.version"} \subseteq keys
             THEN {<<"ai.internal.sdkVersion",
                     merged["telemetry.sdk.name"] \o ":" \o merged["telemetry.sdk.version"]>>}
             ELSE {})
            \cup
            (IF span.span_kind = "Server" /\ IsSome(method)
             THEN {<<"ai.operation.name",
                     IF IsSome(route)
                     THEN Unwrap(method) \o " " \o Unwrap(route)
                     ELSE Unwrap(method)>>}
             ELSE {})
        names == passed \cup {d[1] : d \in derived}
    IN  [k \in names |-> IF k \in {d[1] : d \in derived}
                          THEN (CHOOSE d \in derived : d[1] = k)[2]
                          ELSE merged[k]]

\* tags::get_tags_for_event: the resolution of the parent span
get_tags_for_event(span) == get_tags_for_span(span)

\* tags that let the event's own keys under "ai." in
EventTags_FromEvent(span, event) ==
    LET own == {k \in DOMAIN event.attributes : StartsWith(k, "ai.")}
        parent == get_tags_for_event(span)
    IN  [k \in DOMAIN parent \cup own |-> IF k \in own
                                           THEN event.attributes[k]
                                           ELSE parent[k]]

\* tags: Some(get_tags_for_event(&span)) in the loop over span.events: the
\* event is not an argument
EventTags(span, event) == get_tags_for_event(span)

\* a mapping that sends only Server spans to Request
RequestKinds_ServerOnly == {"Server"}

\* the first arm of the match on span.span_kind
RequestKinds == {"Server", "Consumer"}

\* the match on span.span_kind and the first push of create_envelopes
PrimaryEnvelope(self, span) ==
    IF span.span_kind \in RequestKinds
    THEN [ name        |-> "Microsoft.ApplicationInsights.Request",
           sample_rate |-> Some(self.sample_rate),
           i_key       |-> Some(self.instrumentation_key),
           tags        |-> Some(get_tags_for_span(span)),
           data        |-> Some([variant |-> "Request", data |-> RequestData(span)]) ]
    ELSE [ name        |-> "Microsoft.ApplicationInsights.RemoteDependency",
           sample_rate |-> Some(self.sample_rate),
           i_key       |-> Some(self.instrumentation_key),
           tags        |-> Some(get_tags_for_span(span)),
           data        |-> Some([variant |-> "RemoteDependency",
                                 data |-> RemoteDependencyData(span)]) ]

\* a match that does not tell "Exception" from "exception"
IsExceptionEvent_IgnoreCase(event) == event.name \in {"exception", "Exception"}

\* match event.name.as_ref() { "exception" => ..., _ => ... }
IsExceptionEvent(event) == event.name = "exception"

\* the body of the loop over span.events of create_envelopes
EventEnvelope(self, span, event) ==
    IF IsExceptionEvent(event)
    THEN [ name        |-> "Microsoft.ApplicationInsights.Exception",
           sample_rate |-> Some(self.sample_rate),
           i_key       |-> Some(self.instrumentation_key),
           tags        |-> Some(EventTags(span, event)),
           data        |-> Some([variant |-> "Exception", data |-> ExceptionData(event)]) ]
    ELSE [ name        |-> "Microsoft.ApplicationInsights.Message",
           sample_rate |-> Some(self.sample_rate),
           i_key       |-> Some(self.instrumentation_key),
           tags        |-> Some(EventTags(span, event)),
           data        |-> Some([variant |-> "Message", data |-> MessageData(event)]) ]

\* a loop that stops one event early
EventEnvelopes_DropLast(self, span) ==
    [i \in 1..(Len(span.events) - 1) |-> EventEnvelope(self, span, span.events[i])]

\* the events of the span, one envelope each, in the order of span.events
EventEnvelopes(self, span) ==
    [i \in 1..Len(span.events) |-> EventEnvelope(self, span, span.events[i])]

create_envelopes(self, span) ==
    <<PrimaryEnvelope(self, span)>> \o EventEnvelopes(self, span)

\* batch.into_iter().flat_map(|span| self.create_envelopes(span)).collect()
RECURSIVE FlatMapEnvelopes(_, _)
FlatMapEnvelopes(self, spans) ==
    IF spans = <<>>
    THEN <<>>
    ELSE create_envelopes(self, Head(spans)) \o FlatMapEnvelopes(self, Tail(spans))

---------------------------------------------------------------------------
(* uploader::send and the transport.  The uploader's file is not among the *)
(* sources; its steps are those of the specification's upload pipeline:    *)
(* serialize, invoke the transport, deserialize the response, inspect the  *)
(* reported item failures.                                                 *)

Ok == [kind |-> "Ok"]

UploadSerializeRequest == [kind |-> "UploadSerializeRequest"]

UploadDeserializeResponse == [kind |-> "UploadDeserializeResponse"]

UploadConnection(cause) == [kind |-> "UploadConnection", cause |-> cause]

Upload(errors) == [kind |-> "Upload", errors |-> errors]

\* what HttpClient::send may fail with (http_client.rs, the doc of send)
ConnectionCauses == {"cannot connect", "redirects"}

\* an uploader that goes on to the transport whatever the serializer said
SerializeStep_IgnoreFailure(items, serialized) ==
    [pc |-> "send", payload |-> Some(items), result |-> None]

\* serde_json::to_vec(&items).map_err(Error::UploadSerializeRequest)?
\* `serialized` is the serializer's outcome: TRUE when it produced a body.
SerializeStep(items, serialized) ==
    IF serialized
    THEN [pc |-> "send", payload |-> Some(items), result |-> None]
    ELSE [pc |-> "return", payload |-> None, result |-> Some(UploadSerializeRequest)]

\* client.send(request).await.map_err(Error::UploadConnection)?
\* `outcome` is what the transport gave back: a body or a cause of failure.
SendStep(outcome) ==
    IF outcome.ok
    THEN [pc |-> "deserialize", response |-> Some(outcome.body), result |-> None]
    ELSE [pc |-> "return", response |-> None,
          result |-> Some(UploadConnection(outcome.cause))]

\* an inspection that takes a batch for failed only when no item was accepted
ReportsItemFailure_OnlyFullRejection(body) == body.itemsAccepted = 0

\* the decoded response reports at least one item failure
ReportsItemFailure(body) == body.errors # <<>>

\* an uploader that takes a response it cannot read for a success
DeserializeStep_UndecodableIsSuccess(body) ==
    IF ~body.decodable
    THEN Ok
    ELSE IF ReportsItemFailure(body)
         THEN Upload(body.errors)
         ELSE Ok

\* deserialize the response and inspect the per-item outcome
DeserializeStep(body) ==
    IF ~body.decodable
    THEN UploadDeserializeResponse
    ELSE IF ReportsItemFailure(body)
         THEN Upload(body.errors)
         ELSE Ok

\* an export that drops the uploader's error
ExportResult_Swallow(send_result) == Ok

\* export's tail expression: the result of uploader::send is the result of
\* export
ExportResult(send_result) == send_result

---------------------------------------------------------------------------
(* The ingestion endpoint's responses to a request of n items (wire format *)
(* of the response: itemsReceived, itemsAccepted and one error descriptor  *)
(* per rejected item), and bodies that do not decode.                      *)

ErrorDescriptors(n, failed) ==
    LET all == [i \in 1..n |-> [index |-> i - 1, statusCode |-> 400,
                                message |-> "rejected"]]
        Failed(e) == e.index \in failed
    IN  SelectSeq(all, Failed)

Transmission(n, failed) ==
    [ decodable     |-> TRUE,
      itemsReceived |-> n,
      itemsAccepted |-> n - Cardinality(failed),
      errors        |-> ErrorDescriptors(n, failed) ]

Undecodable == [decodable |-> FALSE]

ResponseBodies(n) ==
    {Undecodable} \cup {Transmission(n, failed) : failed \in SUBSET (0..(n - 1))}

TransportOutcomes(n) ==
    {[ok |-> FALSE, cause |-> c] : c \in ConnectionCauses}
      \cup {[ok |-> TRUE, body |-> b] : b \in ResponseBodies(n)}

---------------------------------------------------------------------------
(* Inputs                                                                  *)

SeqsUpTo(S, n) == UNION {[1..k -> S] : k \in 0..n}

SampleValue(key) ==
    CASE key = HTTP_METHOD -> "GET"
      [] key = HTTP_STATUS_CODE -> "500"
      [] key = EXCEPTION_TYPE -> "IOError"
      [] key = EXCEPTION_MESSAGE -> "disk full"
      [] key = EXCEPTION_STACKTRACE -> "at write (disk.rs:7)"
      [] key = "retries" -> "3"
      [] key = "ai.user.id" -> "alice"
      [] key = SERVICE_NAME -> "my-application"
      [] key = HTTP_ROUTE -> "/items/{id}"
      [] key = HTTP_URL -> "https://example.com/items/1"
      [] key = HTTP_SCHEME -> "https"
      [] key = HTTP_HOST -> "example.com"
      [] key = HTTP_TARGET -> "/items/1"
      [] key = HTTP_CLIENT_IP -> "192.0.2.1"
      [] key = NET_PEER_IP -> "10.0.0.7"
      [] key = NET_PEER_NAME -> "db.internal"
      [] key = NET_PEER_PORT -> "5432"
      [] key = DB_NAME -> "orders"
      [] key = DB_STATEMENT -> "SELECT 1"
      [] key = DB_SYSTEM -> "postgresql"
      [] key = MESSAGING_SYSTEM -> "kafka"
      [] key = RPC_SYSTEM -> "grpc"
      [] OTHER -> "value"

\* the attribute mappings that hold some of the keys
AttributesOver(keys) == {[k \in d |-> SampleValue(k)] : d \in SUBSET keys}

NoAttributes == [k \in {} |-> ""]

EventNames == {"exception", "Exception", "", "started"}

MapEvents ==
    [name : EventNames, attributes : {NoAttributes, [k \in {EXCEPTION_TYPE} |-> "IOError"]}]

\* the spans of the mapping specification
MapSpans ==
    [ span_kind   : SpanKinds,
      status_code : StatusCodes,
      name        : {"", "op"},
      attributes  : AttributesOver({HTTP_METHOD, HTTP_STATUS_CODE}),
      resource    : AttributesOver({SERVICE_NAME}),
      events      : SeqsUpTo(MapEvents, MaxEvents) ]

\* the spans of the upload specification: a request without events and a
\* dependency with one exception event
UploadSpans ==
    { [ span_kind |-> "Server", status_code |-> "Ok", name |-> "op",
        attributes |-> NoAttributes, resource |-> NoAttributes, events |-> <<>> ],
      [ span_kind |-> "Client", status_code |-> "Error", name |-> "call",
        attributes |-> NoAttributes, resource |-> NoAttributes,
        events |-> << [name |-> "exception", attributes |-> NoAttributes] >> ] }

---------------------------------------------------------------------------
(* The export of one batch                                                 *)

InitExport ==
    /\ exporter = Exporter_new("instrumentation-key")
    /\ pc = "idle"
    /\ envelopes = <<>>
    /\ payload = None
    /\ sends = 0
    /\ response = None
    /\ sendResult = None
    /\ returned = None
    /\ log = <<>>
    /\ builder = new_pipeline("instrumentation-key")
    /\ trail = <<>>

Init ==
    /\ batch \in SeqsUpTo(UploadSpans, MaxBatch)
    /\ InitExport

InitMap ==
    /\ batch \in {<<span>> : span \in MapSpans}
    /\ InitExport

\* the configs handed to with_trace_config: without a resource, with a
\* service.name, with a service.namespace
TraceConfigs ==
    [ resource : {None, Some([k \in {SERVICE_NAME} |-> "billing"]),
                  Some([k \in {"service.namespace"} |-> "shop"])},
      sampler  : {"ParentBased(AlwaysOn)", "AlwaysOff"} ]

ServiceNames == {"my-application", "frontend"}

\* builder.with_trace_config(config)
WithTraceConfig ==
    /\ Len(trail) < MaxCalls
    /\ \E config \in TraceConfigs :
          /\ builder' = with_trace_config(builder, config)
          /\ trail' = Append(trail, [call |-> "with_trace_config", config |-> config,
                                      self |-> builder])
    /\ UNCHANGED <<exporter, batch, pc, envelopes, payload, sends, response, sendResult,
                   returned, log>>

\* builder.with_service_name(name)
WithServiceName ==
    /\ Len(trail) < MaxCalls
    /\ \E name \in ServiceNames :
          /\ builder' = with_service_name(builder, name)
          /\ trail' = Append(trail, [call |-> "with_service_name", name |-> name,
                                      self |-> builder])
    /\ UNCHANGED <<exporter, batch, pc, envelopes, payload, sends, response, sendResult,
                   returned, log>>

InitBuilder ==
    /\ batch = <<>>
    /\ InitExport

NextBuilder == WithTraceConfig \/ WithServiceName

SpecBuilder == InitBuilder /\ [][NextBuilder]_vars

\* export is called with the batch: the envelopes are collected and
\* uploader::send starts
Export ==
    /\ pc = "idle"
    /\ envelopes' = FlatMapEnvelopes(exporter, batch)
    /\ pc' = "serialize"
    /\ UNCHANGED <<exporter, batch, payload, sends, response, sendResult, returned, log, builder, trail>>

\* uploader::send serializes the envelopes
Serialize ==
    /\ pc = "serialize"
    /\ \E serialized \in BOOLEAN :
         LET step == SerializeStep(envelopes, serialized)
         IN  /\ pc' = step.pc
             /\ payload' = step.payload
             /\ sendResult' = step.result
             /\ log' = Append(log, [op |-> "serialize", ok |-> serialized, cause |-> ""])
    /\ UNCHANGED <<exporter, batch, envelopes, sends, response, returned, builder, trail>>

\* uploader::send invokes HttpClient::send with the serialized body
ClientSend ==
    /\ pc = "send"
    /\ \E outcome \in TransportOutcomes(Len(Unwrap(payload))) :
         LET step == SendStep(outcome)
         IN  /\ pc' = step.pc
             /\ response' = step.response
             /\ sendResult' = step.result
             /\ log' = Append(log, [op |-> "send", ok |-> outcome.ok,
                                      cause |-> IF outcome.ok THEN "" ELSE outcome.cause])
    /\ sends' = sends + 1
    /\ UNCHANGED <<exporter, batch, envelopes, payload, returned, builder, trail>>

\* uploader::send deserializes the response and inspects it
Deserialize ==
    /\ pc = "deserialize"
    /\ sendResult' = Some(DeserializeStep(Unwrap(response)))
    /\ pc' = "return"
    /\ log' = Append(log, [op |-> "deserialize", ok |-> Unwrap(response).decodable,
                          cause |-> ""])
    /\ UNCHANGED <<exporter, batch, envelopes, payload, sends, response, returned, builder, trail>>

\* export returns to its caller
Return ==
    /\ pc = "return"
    /\ returned' = Some(ExportResult(Unwrap(sendResult)))
    /\ pc' = "done"
    /\ UNCHANGED <<exporter, batch, envelopes, payload, sends, response, sendResult, log, builder, trail>>

Next == Export \/ Serialize \/ ClientSend \/ Deserialize \/ Return

Spec == Init /\ [][Next]_vars

NextMap == Export

SpecMap == InitMap /\ [][NextMap]_vars

---------------------------------------------------------------------------
(* Specifications of the field mappings: one span without events, its      *)
(* attributes drawn over the keys that one field of the record reads.      *)

\* the spans without events over the given kinds, names, attribute mappings
\* and resources
SpansWith(kinds, names, attributes, resources) ==
    [ span_kind   : kinds,
      status_code : {"Unset"},
      name        : names,
      attributes  : attributes,
      resource    : resources,
      events      : {<<>>} ]

\* the keys RemoteDependencyData::from reads for type_, and one it does not
TypeKeys ==
    {DB_SYSTEM, MESSAGING_SYSTEM, RPC_SYSTEM, HTTP_METHOD, DB_STATEMENT, NET_PEER_NAME}

InitType ==
    /\ batch \in {<<span>> : span \in SpansWith(SpanKinds, {"op"},
                                                 AttributesOver(TypeKeys),
                                                 AttributesOver({SERVICE_NAME}))}
    /\ InitExport

SpecType == InitType /\ [][NextMap]_vars

\* the keys RemoteDependencyData::from reads for target
TargetKeys == {HTTP_HOST, NET_PEER_NAME, NET_PEER_IP, NET_PEER_PORT, DB_NAME}

InitTarget ==
    /\ batch \in {<<span>> : span \in SpansWith(SpanKinds, {"op"},
                                                 AttributesOver(TargetKeys),
                                                 AttributesOver({SERVICE_NAME}))}
    /\ InitExport

SpecTarget == InitTarget /\ [][NextMap]_vars

\* the keys RequestData::from reads for name
NameKeys == {HTTP_METHOD, HTTP_ROUTE}

InitName ==
    /\ batch \in {<<span>> : span \in SpansWith(SpanKinds, {"", "op"},
                                                 AttributesOver(NameKeys),
                                                 AttributesOver({SERVICE_NAME}))}
    /\ InitExport

SpecName == InitName /\ [][NextMap]_vars

\* values of http.target: with the leading "/", without it, empty
TargetValues == {"/items/1", "items/1", ""}

\* attribute maps over the keys RequestData::from reads for url
UrlAttributes ==
    LET others == AttributesOver({HTTP_URL, HTTP_SCHEME, HTTP_HOST})
    IN  others \cup {a @@ (HTTP_TARGET :> t) : a \in others, t \in TargetValues}

InitUrl ==
    /\ batch \in {<<span>> : span \in SpansWith(SpanKinds, {"op"}, UrlAttributes,
                                                 {NoAttributes})}
    /\ InitExport

SpecUrl == InitUrl /\ [][NextMap]_vars

\* the keys ExceptionData::from removes, and a key it leaves
ExceptionKeys == {EXCEPTION_TYPE, EXCEPTION_MESSAGE, EXCEPTION_STACKTRACE, "retries"}

\* one event named "exception" per span
ExceptionEvents ==
    {<<event>> : event \in [name : {"exception"}, attributes : AttributesOver(ExceptionKeys)]}

InitException ==
    /\ batch \in {<<span>> : span \in
                      [ span_kind : SpanKinds, status_code : {"Error"}, name : {"op"},
                        attributes : {NoAttributes}, resource : {NoAttributes},
                        events : ExceptionEvents ]}
    /\ InitExport

SpecException == InitException /\ [][NextMap]_vars

\* events with and without an attribute of their own under "ai."
TagEvents ==
    [name : {"exception", "started"},
     attributes : {NoAttributes, [k \in {"ai.user.id"} |-> "mallory"]}]

\* spans whose tags differ: by kind, by http.method, by a key under "ai.",
\* by the resource's service.name
TagSpans ==
    [ span_kind : {"Server", "Client"}, status_code : {"Ok"}, name : {"op"},
      attributes : AttributesOver({HTTP_METHOD, "ai.user.id"}),
      resource : AttributesOver({SERVICE_NAME}),
      events : SeqsUpTo(TagEvents, MaxEvents) ]

\* a batch of two spans that differ in their events at most
InitTags ==
    /\ batch \in {<<span, [span EXCEPT !.events = events]>> :
                      span \in TagSpans, events \in SeqsUpTo(TagEvents, MaxEvents)}
    /\ InitExport

SpecTags == InitTags /\ [][NextMap]_vars

---------------------------------------------------------------------------
(* Reading the collected envelopes against the batch                       *)

\* export has collected the envelopes of the batch
Collected == pc # "idle"

\* the number of envelopes the first n spans of the batch account for
RECURSIVE EnvelopesBefore(_)
EnvelopesBefore(n) ==
    IF n = 0 THEN 0 ELSE EnvelopesBefore(n - 1) + 1 + Len(batch[n].events)

\* the envelope at the place of span i's primary envelope
PrimaryOf(i) == envelopes[EnvelopesBefore(i - 1) + 1]

\* the envelope at the place of the j-th event of span i
EventOf(i, j) == envelopes[EnvelopesBefore(i - 1) + 1 + j]

RequestFields ==
    {"ver", "name", "response_code", "success", "source", "url", "properties"}

DependencyFields ==
    {"ver", "name", "result_code", "success", "data", "target", "type_", "properties"}

IsRequestEnvelope(e) ==
    /\ e.name = "Microsoft.ApplicationInsights.Request"
    /\ Unwrap(e.data).variant = "Request"
    /\ DOMAIN Unwrap(e.data).data = RequestFields

IsDependencyEnvelope(e) ==
    /\ e.name = "Microsoft.ApplicationInsights.RemoteDependency"
    /\ Unwrap(e.data).variant = "RemoteDependency"
    /\ DOMAIN Unwrap(e.data).data = DependencyFields

IsExceptionEnvelope(e) ==
    /\ e.name = "Microsoft.ApplicationInsights.Exception"
    /\ Unwrap(e.data).variant = "Exception"
    /\ DOMAIN Unwrap(e.data).data = {"ver", "exceptions", "properties"}

IsMessageEnvelope(e) ==
    /\ e.name = "Microsoft.ApplicationInsights.Message"
    /\ Unwrap(e.data).variant = "Message"
    /\ DOMAIN Unwrap(e.data).data = {"ver", "message", "properties"}

---------------------------------------------------------------------------
(* C1: the primary envelope of a span is a Request envelope holding a     *)
(* Request record exactly when the span kind is Server or Consumer, and a  *)
(* RemoteDependency envelope holding a RemoteDependency record for Client, *)
(* Producer and Internal; a name is never paired with the other record.    *)
C1_KindDecidesPrimary ==
    Collected =>
        \A i \in 1..Len(batch) :
            /\ IsRequestEnvelope(PrimaryOf(i))
                  <=> batch[i].span_kind \in {"Server", "Consumer"}
            /\ IsDependencyEnvelope(PrimaryOf(i))
                  <=> batch[i].span_kind \in {"Client", "Producer", "Internal"}
            /\ (PrimaryOf(i).name = "Microsoft.ApplicationInsights.Request")
                  <=> (Unwrap(PrimaryOf(i).data).variant = "Request")

C1_Witness ==
    /\ Collected
    /\ batch[1].span_kind = "Consumer"
    /\ IsRequestEnvelope(PrimaryOf(1))

---------------------------------------------------------------------------
(* What an envelope shows of the event it was made from: the exception's   *)
(* type or the message text, and the properties left of the attributes.    *)
ShowsEvent(e, event) ==
    LET data == Unwrap(e.data).data
        rest == IF event.name = "exception"
                THEN DOMAIN event.attributes
                       \ {"exception.type", "exception.message", "exception.stacktrace"}
                ELSE DOMAIN event.attributes
    IN  /\ IF event.name = "exception"
           THEN /\ IsExceptionEnvelope(e)
                /\ data.exceptions[1].type_name =
                      IF "exception.type" \in DOMAIN event.attributes
                      THEN event.attributes["exception.type"]
                      ELSE "<no type>"
           ELSE /\ IsMessageEnvelope(e)
                /\ data.message = IF event.name = "" THEN "<no message>" ELSE event.name
        /\ IF rest = {}
           THEN data.properties = None
           ELSE /\ IsSome(data.properties)
                /\ DOMAIN Unwrap(data.properties) = rest

\* What a primary envelope shows of the span it was made from.
ShowsSpan(e, span) ==
    LET data == Unwrap(e.data).data
        keys == DOMAIN span.attributes \cup DOMAIN span.resource
    IN  /\ IsRequestEnvelope(e) \/ IsDependencyEnvelope(e)
        /\ IsDependencyEnvelope(e) => data.name = span.name
        /\ IF keys = {}
           THEN data.properties = None
           ELSE /\ IsSome(data.properties)
                /\ DOMAIN Unwrap(data.properties) = keys

(* C2: a span with n events gives exactly 1 + n envelopes: its primary    *)
(* envelope first, then one envelope per event, in the order of the events,*)
(* none dropped and none duplicated.                                       *)
C2_OneEnvelopePerSpanAndEvent ==
    Collected =>
        /\ Len(envelopes) = EnvelopesBefore(Len(batch))
        /\ \A i \in 1..Len(batch) :
              /\ ShowsSpan(PrimaryOf(i), batch[i])
              /\ \A j \in 1..Len(batch[i].events) :
                    ShowsEvent(EventOf(i, j), batch[i].events[j])

C2_Witness ==
    /\ Collected
    /\ Len(batch[1].events) = MaxEvents
    /\ batch[1].events[1].name = "started"
    /\ batch[1].events[MaxEvents].name = "exception"
    /\ Len(envelopes) = 1 + MaxEvents
    /\ IsMessageEnvelope(envelopes[2])
    /\ IsExceptionEnvelope(envelopes[1 + MaxEvents])

---------------------------------------------------------------------------
(* C3: an event's envelope is an Exception envelope holding an Exception   *)
(* record if and only if the event name is exactly "exception"; for every  *)
(* other name, the empty name and "Exception" included, it is a Message    *)
(* envelope holding a Message record.                                      *)
C3_ExceptionIffNamedException ==
    Collected =>
        \A i \in 1..Len(batch) :
            \A j \in 1..Len(batch[i].events) :
                /\ IsExceptionEnvelope(EventOf(i, j))
                      <=> batch[i].events[j].name = "exception"
                /\ IsMessageEnvelope(EventOf(i, j))
                      <=> batch[i].events[j].name # "exception"

C3_Witness ==
    /\ Collected
    /\ Len(batch[1].events) = 2
    /\ batch[1].events[1].name = "Exception"
    /\ batch[1].events[2].name = "exception"
    /\ IsMessageEnvelope(EventOf(1, 1))
    /\ IsExceptionEnvelope(EventOf(1, 2))

---------------------------------------------------------------------------
(* Reading the delivery against its history                                *)

\* the serializer failed
SerializeFailed == \E i \in DOMAIN log : log[i].op = "serialize" /\ ~log[i].ok

\* the transport answered and the answer decodes
Decoded == IsSome(response) /\ Unwrap(response).decodable

\* the transport answered and the answer does not decode
NotDecoded == IsSome(response) /\ ~Unwrap(response).decodable

\* the number of items the decoded response reports as failed
ItemFailures ==
    LET body == Unwrap(response)
        notAccepted == body.itemsReceived - body.itemsAccepted
    IN  IF Len(body.errors) > notAccepted THEN Len(body.errors) ELSE notAccepted

(* C4: when the response decodes, the delivery succeeds if and only if     *)
(* the response reports no item failure; with any item failure, also when  *)
(* other items of the batch were accepted, it ends with Error::Upload      *)
(* carrying the reported errors, never with success.                       *)
C4_SuccessIffNoItemFailure ==
    (IsSome(sendResult) /\ Decoded) =>
        /\ Unwrap(sendResult).kind = "Ok" <=> ItemFailures = 0
        /\ ItemFailures > 0 =>
              /\ Unwrap(sendResult).kind = "Upload"
              /\ Unwrap(sendResult).errors = Unwrap(response).errors
        /\ IsSome(returned) => returned = sendResult

C4_Witness ==
    /\ pc = "done"
    /\ Decoded
    /\ Unwrap(response).itemsReceived = 3
    /\ Unwrap(response).itemsAccepted = 2
    /\ Len(Unwrap(response).errors) = 1
    /\ Unwrap(returned).kind = "Upload"
    /\ Len(Unwrap(returned).errors) = 1

---------------------------------------------------------------------------
(* C5: when serializing the batch fails, the delivery ends at once with    *)
(* Error::UploadSerializeRequest and the transport is never invoked; every *)
(* invocation of the transport comes after a serialization that succeeded. *)
C5_SerializeFailureEndsDelivery ==
    /\ SerializeFailed =>
          /\ pc \in {"return", "done"}
          /\ sendResult = Some(UploadSerializeRequest)
          /\ sends = 0
          /\ \A i \in DOMAIN log : log[i].op # "send"
          /\ log[Len(log)].op = "serialize"
    /\ \A i \in DOMAIN log :
          log[i].op = "send" =>
              \E j \in 1..(i - 1) : log[j].op = "serialize" /\ log[j].ok

C5_Witness ==
    /\ pc = "done"
    /\ SerializeFailed
    /\ sends = 0
    /\ returned = Some(UploadSerializeRequest)

---------------------------------------------------------------------------
(* C6: when the response does not decode, the delivery ends with           *)
(* Error::UploadDeserializeResponse, and with nothing else: not success,   *)
(* not Error::Upload, not Error::UploadConnection; and no other delivery   *)
(* ends with that error.                                                   *)
C6_UndecodableIsDecodeError ==
    /\ (NotDecoded /\ IsSome(sendResult)) =>
          /\ Unwrap(sendResult).kind = "UploadDeserializeResponse"
          /\ Unwrap(sendResult).kind \notin {"Ok", "Upload", "UploadConnection"}
          /\ IsSome(returned) => Unwrap(returned).kind = "UploadDeserializeResponse"
    /\ (IsSome(sendResult) /\ Unwrap(sendResult).kind = "UploadDeserializeResponse")
          => NotDecoded

C6_Witness ==
    /\ pc = "done"
    /\ NotDecoded
    /\ returned = Some(UploadDeserializeResponse)

---------------------------------------------------------------------------
(* C7: a failed HttpClient::send is followed by another send of the same   *)
(* request by the exporter (the exporter retries).                         *)
C7_FailedSendIsRetried ==
    pc = "done" =>
        \A i \in DOMAIN log :
            (log[i].op = "send" /\ ~log[i].ok) =>
                \E j \in (i + 1)..Len(log) : log[j].op = "send"

---------------------------------------------------------------------------
(* C8: export returns success only when the delivery succeeded, and for    *)
(* each kind of failure (serialization, connection, response decoding,     *)
(* item rejection) it returns that error; a failure of the transport comes *)
(* back as Error::UploadConnection with the transport's cause.             *)
C8_EveryFailureReported ==
    pc = "done" =>
        /\ IsSome(returned)
        /\ Unwrap(returned).kind = "Ok"
              <=> /\ \A i \in DOMAIN log : log[i].ok
                  /\ Decoded
                  /\ ItemFailures = 0
        /\ SerializeFailed => Unwrap(returned).kind = "UploadSerializeRequest"
        /\ \A i \in DOMAIN log :
              (log[i].op = "send" /\ ~log[i].ok) =>
                  /\ Unwrap(returned).kind = "UploadConnection"
                  /\ Unwrap(returned).cause = log[i].cause
        /\ NotDecoded => Unwrap(returned).kind = "UploadDeserializeResponse"
        /\ (Decoded /\ ItemFailures > 0) =>
              /\ Unwrap(returned).kind = "Upload"
              /\ Unwrap(returned).errors = Unwrap(response).errors

C8_Witness ==
    /\ pc = "done"
    /\ sends = 1
    /\ log[Len(log)] = [op |-> "send", ok |-> FALSE, cause |-> "redirects"]
    /\ returned = Some(UploadConnection("redirects"))

---------------------------------------------------------------------------
---------------------------------------------------------------------------
(* C10: the Success of a Dependency, as that of a Request, is false if the *)
(* span status is Error and true otherwise: a Client, Producer or Internal *)
(* span with status Unset gives a Dependency whose Success is true.        *)
C10_DependencySuccessTrueUnlessError ==
    Collected =>
        \A i \in 1..Len(batch) :
            IsDependencyEnvelope(PrimaryOf(i)) =>
                Unwrap(PrimaryOf(i).data).data.success =
                    Some(batch[i].status_code # "Error")

---------------------------------------------------------------------------
\* The type the precedence of the claim gives a dependency span.
TypeByPrecedence(span) ==
    LET a == span.attributes
        keys == DOMAIN span.attributes \cup DOMAIN span.resource
    IN  IF span.span_kind = "Internal" THEN Some("InProc")
        ELSE IF "db.system" \in DOMAIN a THEN Some(a["db.system"])
        ELSE IF "messaging.system" \in DOMAIN a THEN Some(a["messaging.system"])
        ELSE IF "rpc.system" \in DOMAIN a THEN Some(a["rpc.system"])
        ELSE IF \E k \in keys : StartsWith(k, "http.") THEN Some("HTTP")
        ELSE IF \E k \in keys : StartsWith(k, "db.") THEN Some("DB")
        ELSE None

(* C11: the type of a RemoteDependency record follows a strict precedence: *)
(* "InProc" for an Internal span whatever its attributes; else db.system;  *)
(* else messaging.system; else rpc.system; else "HTTP" if a property key   *)
(* starts with "http."; else "DB" if one starts with "db."; else absent.   *)
(* With an http.* and a db.* key and no system attribute it is "HTTP".     *)
C11_TypeByPrecedence ==
    Collected =>
        \A i \in 1..Len(batch) :
            IsDependencyEnvelope(PrimaryOf(i)) =>
                /\ Unwrap(PrimaryOf(i).data).data.type_ = TypeByPrecedence(batch[i])
                /\ ( /\ batch[i].span_kind # "Internal"
                     /\ DOMAIN batch[i].attributes = {"http.method", "db.statement"} )
                      => Unwrap(PrimaryOf(i).data).data.type_ = Some("HTTP")
                /\ batch[i].span_kind = "Internal"
                      => Unwrap(PrimaryOf(i).data).data.type_ = Some("InProc")

C11_Witness ==
    /\ Collected
    /\ batch[1].span_kind = "Internal"
    /\ {"db.system", "messaging.system", "http.method"} \subseteq DOMAIN batch[1].attributes
    /\ IsDependencyEnvelope(PrimaryOf(1))
    /\ Unwrap(PrimaryOf(1).data).data.type_ = Some("InProc")

---------------------------------------------------------------------------
\* The target the precedence of the claim gives a dependency span.
TargetByPrecedence(span) ==
    LET a == span.attributes
        WithPort(peer) == IF "net.peer.port" \in DOMAIN a
                          THEN peer \o ":" \o a["net.peer.port"]
                          ELSE peer
    IN  IF "http.host" \in DOMAIN a THEN Some(a["http.host"])
        ELSE IF "net.peer.name" \in DOMAIN a THEN Some(WithPort(a["net.peer.name"]))
        ELSE IF "net.peer.ip" \in DOMAIN a THEN Some(WithPort(a["net.peer.ip"]))
        ELSE IF "db.name" \in DOMAIN a THEN Some(a["db.name"])
        ELSE None

(* C12: the target of a RemoteDependency record follows a strict           *)
(* precedence: http.host; else net.peer.name, with ":" and net.peer.port   *)
(* when the port is present; else net.peer.ip, with the port likewise;     *)
(* else db.name; else absent.  A port without peer name and peer IP never  *)
(* contributes.  Peer name "db.internal" with port "5432" gives            *)
(* "db.internal:5432".                                                     *)
C12_TargetByPrecedence ==
    Collected =>
        \A i \in 1..Len(batch) :
            IsDependencyEnvelope(PrimaryOf(i)) =>
                LET target == Unwrap(PrimaryOf(i).data).data.target
                    has == DOMAIN batch[i].attributes
                IN  /\ target = TargetByPrecedence(batch[i])
                    /\ has = {"net.peer.port"} => target = None
                    /\ has = {"net.peer.port", "db.name"} => target = Some("orders")
                    /\ has = {"net.peer.name", "net.peer.port"}
                          => target = Some("db.internal:5432")

C12_Witness ==
    /\ Collected
    /\ batch[1].span_kind = "Client"
    /\ DOMAIN batch[1].attributes = {"net.peer.name", "net.peer.ip", "net.peer.port", "db.name"}
    /\ IsDependencyEnvelope(PrimaryOf(1))
    /\ Unwrap(PrimaryOf(1).data).data.target = Some("db.internal:5432")

---------------------------------------------------------------------------
(* C13: the name of a Request record is the http.method value alone when   *)
(* http.method is present and http.route is absent; "{method} {route}"     *)
(* when both are present; otherwise, with or without http.route, the span  *)
(* name when it is not empty and absent when it is empty.                  *)
C13_RequestName ==
    Collected =>
        \A i \in 1..Len(batch) :
            IsRequestEnvelope(PrimaryOf(i)) =>
                LET name == Unwrap(PrimaryOf(i).data).data.name
                    a == batch[i].attributes
                    method == "http.method" \in DOMAIN a
                    route == "http.route" \in DOMAIN a
                IN  /\ method /\ ~route => name = Some(a["http.method"])
                    /\ method /\ route
                          => name = Some(a["http.method"] \o " " \o a["http.route"])
                    /\ ~method /\ batch[i].name # "" => name = Some(batch[i].name)
                    /\ ~method /\ batch[i].name = "" => name = None

C13_Witness ==
    /\ Collected
    /\ batch[1].span_kind = "Server"
    /\ batch[1].name = "op"
    /\ DOMAIN batch[1].attributes = {"http.method", "http.route"}
    /\ IsRequestEnvelope(PrimaryOf(1))
    /\ Unwrap(PrimaryOf(1).data).data.name = Some("GET /items/{id}")

---------------------------------------------------------------------------
\* http.target made to begin with "/"
NormalizedTarget(t) ==
    IF Len(t) > 0 /\ SubSeq(t, 1, 1) = "/" THEN t ELSE "/" \o t

(* C14: the url of a Request record is the http.url value when present;    *)
(* otherwise, when http.target is present, the target made to begin with   *)
(* "/" and prefixed with "{scheme}://{host}" when http.scheme and          *)
(* http.host are both present, the normalized target alone when either is  *)
(* missing; otherwise absent, so scheme and host without a target give no  *)
(* url.                                                                    *)
C14_RequestUrl ==
    Collected =>
        \A i \in 1..Len(batch) :
            IsRequestEnvelope(PrimaryOf(i)) =>
                LET url == Unwrap(PrimaryOf(i).data).data.url
                    a == batch[i].attributes
                    has == DOMAIN a
                IN  /\ "http.url" \in has => url = Some(a["http.url"])
                    /\ "http.url" \notin has /\ "http.target" \in has
                          => IF {"http.scheme", "http.host"} \subseteq has
                             THEN url = Some(a["http.scheme"] \o "://" \o a["http.host"]
                                                \o NormalizedTarget(a["http.target"]))
                             ELSE url = Some(NormalizedTarget(a["http.target"]))
                    /\ "http.url" \notin has /\ "http.target" \notin has
                          => url = None

C14_Witness ==
    /\ Collected
    /\ batch[1].span_kind = "Server"
    /\ DOMAIN batch[1].attributes = {"http.scheme", "http.host", "http.target"}
    /\ batch[1].attributes["http.target"] = "items/1"
    /\ IsRequestEnvelope(PrimaryOf(1))
    /\ Unwrap(PrimaryOf(1).data).data.url = Some("https://example.com/items/1")

---------------------------------------------------------------------------
(* C15: in the Exception record of an event, type, message and stack are   *)
(* the values of exception.type, exception.message and                     *)
(* exception.stacktrace; type is "<no type>" and message "<no message>"    *)
(* when the attribute is absent, and stack is absent when its attribute    *)
(* is; none of the three keys is in the record's properties; every other   *)
(* attribute of the event is; and properties is absent, not an empty       *)
(* mapping, when no other attribute remains.                               *)
C15_ExceptionRecord ==
    Collected =>
        \A i \in 1..Len(batch) : \A j \in 1..Len(batch[i].events) :
            IsExceptionEnvelope(EventOf(i, j)) =>
                LET record == Unwrap(EventOf(i, j).data).data
                    details == record.exceptions[1]
                    a == batch[i].events[j].attributes
                    taken == {"exception.type", "exception.message", "exception.stacktrace"}
                    others == DOMAIN a \ taken
                IN  /\ Len(record.exceptions) = 1
                    /\ details.type_name = IF "exception.type" \in DOMAIN a
                                            THEN a["exception.type"] ELSE "<no type>"
                    /\ details.message = IF "exception.message" \in DOMAIN a
                                          THEN a["exception.message"] ELSE "<no message>"
                    /\ details.stack = IF "exception.stacktrace" \in DOMAIN a
                                        THEN Some(a["exception.stacktrace"]) ELSE None
                    /\ others = {} => record.properties = None
                    /\ others # {} =>
                          /\ IsSome(record.properties)
                          /\ DOMAIN Unwrap(record.properties) \cap taken = {}
                          /\ \A k \in others :
                                /\ k \in DOMAIN Unwrap(record.properties)
                                /\ Unwrap(record.properties)[k] = a[k]

C15_Witness ==
    /\ Collected
    /\ Len(batch[1].events) = 1
    /\ batch[1].events[1].attributes =
           [k \in {"exception.type", "exception.message", "retries"} |->
               CASE k = "exception.type" -> "IOError"
                 [] k = "exception.message" -> "disk full"
                 [] k = "retries" -> "3"]
    /\ IsExceptionEnvelope(EventOf(1, 1))
    /\ Unwrap(EventOf(1, 1).data).data.exceptions[1] =
           [type_name |-> "IOError", message |-> "disk full", stack |-> None]
    /\ Unwrap(EventOf(1, 1).data).data.properties = Some([k \in {"retries"} |-> "3"])

---------------------------------------------------------------------------
\* The attribute keys the Request mapping takes into name, response code,
\* url and source.
RequestInputs ==
    {"http.method", "http.route", "http.status_code", "http.url", "http.scheme",
     "http.host", "http.target", "http.client_ip", "net.peer.ip"}

\* The attribute keys the RemoteDependency mapping takes into result code,
\* data, target and type.
DependencyInputs ==
    {"http.status_code", "http.url", "db.statement", "http.host", "net.peer.name",
     "net.peer.ip", "net.peer.port", "db.name", "db.system", "messaging.system",
     "rpc.system"}

(* C16: in a Request or RemoteDependency record no attribute key taken     *)
(* into a typed field of the record (http.method, http.route,              *)
(* http.status_code, http.url, http.scheme, http.host, http.target,        *)
(* http.client_ip, net.peer.ip and the other mapping inputs) is a key of   *)
(* the record's properties: an attribute is never reported both as a       *)
(* structured field and as a custom property.                              *)
C16_ConsumedKeysNotInProperties ==
    Collected =>
        \A i \in 1..Len(batch) :
            LET record == Unwrap(PrimaryOf(i).data).data
                inputs == IF IsRequestEnvelope(PrimaryOf(i))
                          THEN RequestInputs ELSE DependencyInputs
            IN  IsSome(record.properties) =>
                    DOMAIN Unwrap(record.properties) \cap inputs = {}

---------------------------------------------------------------------------
\* a span without its events
WithoutEvents(span) == [span EXCEPT !.events = <<>>]

(* C17: the tags of an event's envelope are a function of the parent span  *)
(* only: all event envelopes of a span carry the same tags, and two spans  *)
(* that differ only in the names or attributes of their events give event  *)
(* envelopes with the same tags; an event's own attributes, those under    *)
(* "ai." included, never influence the tags of its envelope.               *)
C17_EventTagsFromParentOnly ==
    Collected =>
        \A i1 \in 1..Len(batch), i2 \in 1..Len(batch) :
            WithoutEvents(batch[i1]) = WithoutEvents(batch[i2]) =>
                \A j1 \in 1..Len(batch[i1].events), j2 \in 1..Len(batch[i2].events) :
                    EventOf(i1, j1).tags = EventOf(i2, j2).tags

C17_Witness ==
    /\ Collected
    /\ Len(batch) = 2
    /\ WithoutEvents(batch[1]) = WithoutEvents(batch[2])
    /\ batch[1].attributes = [k \in {"ai.user.id"} |-> "alice"]
    /\ batch[1].events = << [name |-> "started", attributes |-> NoAttributes] >>
    /\ batch[2].events =
           << [name |-> "exception", attributes |-> [k \in {"ai.user.id"} |-> "mallory"]] >>
    /\ EventOf(1, 1).tags = EventOf(2, 1).tags
    /\ Unwrap(EventOf(2, 1).tags)["ai.user.id"] = "alice"

---------------------------------------------------------------------------
\* The merge of two resources either of which may be missing.
MergedResources(existing, new) ==
    IF existing = None THEN new
    ELSE IF new = None THEN existing
    ELSE Some([k \in DOMAIN existing[1] \cup DOMAIN new[1] |->
                  IF k \in DOMAIN new[1] THEN new[1][k] ELSE existing[1][k]])

(* C18: with_trace_config(c) on a builder that already holds a config      *)
(* leaves a config whose resource is the merge of the existing config's    *)
(* resource and c's resource, whether or not either config has a resource: *)
(* a resource set earlier, such as the service.name of with_service_name,  *)
(* is still there after a with_trace_config whose config has no resource;  *)
(* all other parameters are those of c.                                    *)
C18_TraceConfigMergesResources ==
    \A n \in 1..Len(trail) :
        LET after == IF n = Len(trail) THEN builder ELSE trail[n + 1].self
            self == trail[n].self
        IN  (trail[n].call = "with_trace_config" /\ self.config # None) =>
                /\ after.config # None
                /\ after.config[1].resource =
                       MergedResources(self.config[1].resource, trail[n].config.resource)
                /\ after.config[1].sampler = trail[n].config.sampler

===========================================================================
